---------------------------- MODULE Spec2Model ----------------------------
(***************************************************************************)
(* Model of snap7_easy_vars: the typed field codec (fields.py), the record *)
(* store PLCData (data.py) and the connection manager PLCConnection        *)
(* (connection.py).                                                        *)
(*                                                                         *)
(* Time is counted in whole seconds ("ticks"); datetime.now() and the      *)
(* event loop's clock both read the variable now.  A synchronous call      *)
(* (connect, read, write, a property setter, a timer callback) runs to     *)
(* completion inside one tick, as it does on the event-loop thread.        *)
(***************************************************************************)
EXTENDS Integers, Sequences, FiniteSets, TLC

VARIABLES
    fields,            \* PLCData._fields: the schema, in definition order
    values,            \* PLCData._values, one per field
    last_connected,    \* PLCData._last_connected: <<>> is None, <<t>> a timestamp
    old_is_connected,  \* PLCData.old_is_connected
    timeouts,          \* pending call_later handles, as deadlines in arming order
    subscribers,       \* PLCData._subscribers: list of queue identities
    queues,            \* number of items held by each asyncio.Queue
    now,               \* the clock
    client_connected,  \* state of the snap7 client handle
    call,              \* the last PLCConnection call: its transport log and result
    io,                \* the last codec operation: its inputs and its result
    obs                \* what the liveness timer has done since the last sync

vars == <<fields, values, last_connected, old_is_connected, timeouts,
          subscribers, queues, now, client_connected, call, io, obs>>

-----------------------------------------------------------------------------
(* Bounds of the model *)

MaxTime == 3
MaxTimers == 2
MaxSubs == 2
MaxFields == 2
MaxByteOffset == 1
MaxCalls == 2
MaxReal == 2

(* Constants of the program *)

IS_CONNECTED_TIMEOUT == 2
QueueMaxSize == 100
db_number == 1

Range(s) == {s[i] : i \in DOMAIN s}

-----------------------------------------------------------------------------
(* data.py: liveness, notification fan-out *)

\* PLCData.is_connected, evaluated at clock reading t
is_connected(lc, t) ==
    IF lc = <<>> THEN FALSE
    ELSE (t - lc[1]) <= IS_CONNECTED_TIMEOUT

\* Faulty variant: the loop over the subscribers ends at the first full queue
notify_subscribersStopsAtFull(d) ==
    [d EXCEPT !.queues =
        [q \in DOMAIN d.queues |->
            IF /\ q \in Range(d.subscribers)
               /\ \A i \in DOMAIN d.subscribers :
                     (\E j \in DOMAIN d.subscribers :
                         i <= j /\ d.subscribers[j] = q)
                     => d.queues[d.subscribers[i]] < QueueMaxSize
            THEN d.queues[q] + 1
            ELSE d.queues[q]]]

\* PLCData.notify_subscribers: put_nowait on every registered queue,
\* QueueFull swallowed
notify_subscribers(d) ==
    [d EXCEPT !.queues =
        [q \in DOMAIN d.queues |->
            IF q \in Range(d.subscribers) /\ d.queues[q] < QueueMaxSize
            THEN d.queues[q] + 1
            ELSE d.queues[q]]]

\* The handle call_later returns is stored and never cancelled: the new
\* deadline joins the pending ones.
ArmTimeout(pending, t) == Append(pending, t + IS_CONNECTED_TIMEOUT)

\* Faulty variant: every assignment of last_connected notifies
last_connected_setterAlwaysNotifies(d, value, t) ==
    LET old == is_connected(d.last_connected, t)
        d1  == [d EXCEPT !.old_is_connected = old,
                         !.last_connected = <<value>>]
    IN  [notify_subscribers(d1) EXCEPT
            !.timeouts = ArmTimeout(d1.timeouts, t)]

\* PLCData.last_connected_setter(value), run at clock reading t
last_connected_setter(d, value, t) ==
    LET old == is_connected(d.last_connected, t)
        d1  == [d EXCEPT !.old_is_connected = old,
                         !.last_connected = <<value>>]
        d2  == IF old # is_connected(d1.last_connected, t)
               THEN notify_subscribers(d1)
               ELSE d1
    IN  [d2 EXCEPT !.timeouts = ArmTimeout(d2.timeouts, t)]

\* PLCData._on_connection_timeout, run at clock reading t
on_connection_timeout(d, t) ==
    IF d.old_is_connected # is_connected(d.last_connected, t)
    THEN [notify_subscribers(d) EXCEPT
            !.old_is_connected = is_connected(d.last_connected, t)]
    ELSE d

-----------------------------------------------------------------------------
(* fields.py: the field codec.  A buffer is a sequence of bytes 0..255;    *)
(* the byte at Python index i is element i+1.                              *)

Min(a, b) == IF a < b THEN a ELSE b
Max(a, b) == IF a > b THEN a ELSE b

RECURSIVE Pow2(_)
Pow2(k) == IF k = 0 THEN 1 ELSE 2 * Pow2(k - 1)

\* b >> k and bit k of b
ShiftRight(b, k) == b \div Pow2(k)
BitOf(b, k) == ShiftRight(b, k) % 2

\* a | m and a & m on 8-bit operands, bit by bit
RECURSIVE BitOr(_, _, _)
BitOr(a, m, k) ==
    IF k = 8 THEN 0
    ELSE (IF BitOf(a, k) = 1 \/ BitOf(m, k) = 1 THEN Pow2(k) ELSE 0)
         + BitOr(a, m, k + 1)

RECURSIVE BitAnd(_, _, _)
BitAnd(a, m, k) ==
    IF k = 8 THEN 0
    ELSE (IF BitOf(a, k) = 1 /\ BitOf(m, k) = 1 THEN Pow2(k) ELSE 0)
         + BitAnd(a, m, k + 1)

\* (~mask) & 0xFF for a mask that may exceed one byte
NotMask(mask) == 255 - (mask % 256)

\* data[a:b]: Python clamps both ends of a slice to the length
Slice(data, a, b) == SubSeq(data, Min(a, Len(data)) + 1, Min(b, Len(data)))

\* buffer[a:b] = bytes
SliceAssign(buffer, a, b, bytes) ==
    SubSeq(buffer, 1, Min(a, Len(buffer))) \o bytes
        \o SubSeq(buffer, Max(Min(a, Len(buffer)), Min(b, Len(buffer))) + 1, Len(buffer))

\* data[i]: IndexError past the end
GetItem(data, i) ==
    IF i < Len(data) THEN [ok |-> TRUE, v |-> data[i + 1]]
    ELSE [ok |-> FALSE, v |-> 0]

\* int.from_bytes(slice_, byteorder="big", signed=signed)
RECURSIVE BigEndian(_)
BigEndian(bytes) ==
    IF bytes = <<>> THEN 0
    ELSE BigEndian(SubSeq(bytes, 1, Len(bytes) - 1)) * 256 + bytes[Len(bytes)]

IntFromBytes(bytes, signed) ==
    LET u == BigEndian(bytes)
        half == Pow2(8 * Len(bytes) - 1)
    IN  IF signed /\ u >= half THEN u - 2 * half ELSE u

\* value.to_bytes(size, byteorder="big", signed=signed)
IntToBytes(value, size, signed) ==
    LET u == IF value < 0 THEN value + Pow2(8 * size) ELSE value
    IN  [i \in 1..size |-> (u \div Pow2(8 * (size - i))) % 256]

\* A REAL value is modelled by an integer v with |v| <= MaxReal, standing for
\* the float of that value.
\* struct.pack(">f", v): sign bit, exponent biased by 127 and 23-bit fraction,
\* most significant byte first
FloatBytes(v) ==
    IF v = 0 THEN <<0, 0, 0, 0>>
    ELSE LET a == IF v < 0 THEN -v ELSE v
             e == CHOOSE x \in 0..23 : Pow2(x) <= a /\ a < Pow2(x + 1)
             exponent == e + 127
             fraction == (a - Pow2(e)) * Pow2(23 - e)
         IN  <<(IF v < 0 THEN 128 ELSE 0) + exponent \div 2,
               (exponent % 2) * 128 + fraction \div Pow2(16),
               (fraction \div 256) % 256,
               fraction % 256>>

\* struct.unpack(">f", slice_)[0], for the patterns of the modelled values
FloatOf(slice_) == CHOOSE v \in -MaxReal..MaxReal : FloatBytes(v) = slice_

\* PLCRealField.coerce
RealCoerce(value) == value

\* PLCRealField.read
RealRead(f, data, current) ==
    LET slice_ == Slice(data, f.byte_offset, f.byte_offset + f.size)
    IN  IF Len(slice_) < f.size THEN [ok |-> TRUE, v |-> current]
        ELSE [ok |-> TRUE, v |-> FloatOf(slice_)]

\* PLCBoolField.coerce
BoolCoerce(value) == IF value # 0 THEN 1 ELSE 0

\* Faulty variant: the value is reduced modulo 2^16 instead of clamped
WordClampWraps(f, value) ==
    IF f.signed THEN ((value + 32768) % 65536) - 32768
    ELSE value % 65536

\* PLCWordField._clamp / coerce
WordClamp(f, value) ==
    IF f.signed THEN Max(Min(value, 32767), -32768)
    ELSE Max(Min(value, 65535), 0)

coerce(f, value) ==
    IF f.kind = "bool" THEN BoolCoerce(value)
    ELSE IF f.kind = "word" THEN WordClamp(f, value)
    ELSE RealCoerce(value)

\* Faulty variant: the length test lets byte_offset = len(data) through
BoolReadOffByOne(f, data, current) ==
    IF Len(data) < f.byte_offset THEN [ok |-> TRUE, v |-> current]
    ELSE LET byte_value == GetItem(data, f.byte_offset)
         IN  [ok |-> byte_value.ok,
              v  |-> ShiftRight(byte_value.v, f.bit_offset) % 2]

\* PLCBoolField.read
BoolRead(f, data, current) ==
    IF Len(data) <= f.byte_offset THEN [ok |-> TRUE, v |-> current]
    ELSE LET byte_value == GetItem(data, f.byte_offset)
         IN  [ok |-> byte_value.ok,
              v  |-> ShiftRight(byte_value.v, f.bit_offset) % 2]

\* Faulty variant: the two bytes are always read as an unsigned number
WordReadUnsigned(f, data, current) ==
    LET slice_ == Slice(data, f.byte_offset, f.byte_offset + f.size)
    IN  IF Len(slice_) < f.size THEN [ok |-> TRUE, v |-> current]
        ELSE [ok |-> TRUE, v |-> IntFromBytes(slice_, FALSE)]

\* PLCWordField.read
WordRead(f, data, current) ==
    LET slice_ == Slice(data, f.byte_offset, f.byte_offset + f.size)
    IN  IF Len(slice_) < f.size THEN [ok |-> TRUE, v |-> current]
        ELSE [ok |-> TRUE, v |-> IntFromBytes(slice_, f.signed)]

FieldRead(f, data, current) ==
    IF f.kind = "bool" THEN BoolRead(f, data, current)
    ELSE IF f.kind = "word" THEN WordRead(f, data, current)
    ELSE RealRead(f, data, current)

\* Faulty variant: the byte is assigned the mask instead of or-ed with it
BoolWriteAssign(f, buffer, value) ==
    LET mask == Pow2(f.bit_offset)
        byte == buffer[f.byte_offset + 1]
    IN  IF BoolCoerce(value) = 1
        THEN [buffer EXCEPT ![f.byte_offset + 1] = mask]
        ELSE [buffer EXCEPT ![f.byte_offset + 1] = BitAnd(byte, NotMask(mask), 0)]

\* PLCBoolField.write
BoolWrite(f, buffer, value) ==
    LET mask == Pow2(f.bit_offset)
        byte == buffer[f.byte_offset + 1]
    IN  IF BoolCoerce(value) = 1
        THEN [buffer EXCEPT ![f.byte_offset + 1] = BitOr(byte, mask, 0)]
        ELSE [buffer EXCEPT ![f.byte_offset + 1] = BitAnd(byte, NotMask(mask), 0)]

\* Faulty variant: the word is written low byte first
WordWriteLittleEndian(f, buffer, value) ==
    LET be == IntToBytes(WordClamp(f, value), f.size, f.signed)
    IN  SliceAssign(buffer, f.byte_offset, f.byte_offset + f.size,
                    [i \in 1..f.size |-> be[f.size + 1 - i]])

\* PLCWordField.write
WordWrite(f, buffer, value) ==
    SliceAssign(buffer, f.byte_offset, f.byte_offset + f.size,
                IntToBytes(WordClamp(f, value), f.size, f.signed))

\* PLCRealField.write
RealWrite(f, buffer, value) ==
    SliceAssign(buffer, f.byte_offset, f.byte_offset + f.size,
                FloatBytes(value))

FieldWrite(f, buffer, value) ==
    IF f.kind = "bool" THEN BoolWrite(f, buffer, value)
    ELSE IF f.kind = "word" THEN WordWrite(f, buffer, value)
    ELSE RealWrite(f, buffer, value)

-----------------------------------------------------------------------------
(* data.py: whole-record decode and encode *)

\* PLCData.buffer_size
RECURSIVE MaxOver(_, _)
MaxOver(fs, i) ==
    IF i > Len(fs) THEN 0
    ELSE Max(fs[i].byte_offset + fs[i].size, MaxOver(fs, i + 1))

buffer_size(fs) == IF fs = <<>> THEN 0 ELSE MaxOver(fs, 1)

\* Faulty variant: subscribers are notified only when a field changed
from_bytesNotifiesOnChange(fs, d, raw) ==
    LET r  == [i \in DOMAIN fs |-> FieldRead(fs[i], raw, d.values[i])]
        d1 == [d EXCEPT !.values = [i \in DOMAIN fs |-> r[i].v]]
    IN  IF \A i \in DOMAIN fs : r[i].ok
        THEN [ok |-> TRUE,
              d  |-> IF d1.values # d.values THEN notify_subscribers(d1)
                     ELSE d1]
        ELSE [ok |-> FALSE, d |-> d]

\* PLCData.from_bytes: every field is read from raw in schema order, then one
\* notification.  ok is FALSE when a field read raised.
from_bytes(fs, d, raw) ==
    LET r == [i \in DOMAIN fs |-> FieldRead(fs[i], raw, d.values[i])]
    IN  IF \A i \in DOMAIN fs : r[i].ok
        THEN [ok |-> TRUE,
              d  |-> notify_subscribers(
                        [d EXCEPT !.values = [i \in DOMAIN fs |-> r[i].v]])]
        ELSE [ok |-> FALSE, d |-> d]

\* Faulty variant: the buffer is not zero-filled before the fields are written
to_bytesDirtyBuffer(fs, vals) ==
    LET WriteAll[i \in 0..Len(fs)] ==
            IF i = 0 THEN [j \in 1..buffer_size(fs) |-> 255]
            ELSE FieldWrite(fs[i], WriteAll[i - 1], vals[i])
    IN  WriteAll[Len(fs)]

\* PLCData.to_bytes: a zero-filled buffer written field by field in schema order
RECURSIVE WriteFields(_, _, _, _)
WriteFields(fs, vals, buffer, i) ==
    IF i > Len(fs) THEN buffer
    ELSE WriteFields(fs, vals, FieldWrite(fs[i], buffer, vals[i]), i + 1)

to_bytes(fs, vals) ==
    WriteFields(fs, vals, [i \in 1..buffer_size(fs) |-> 0], 1)

-----------------------------------------------------------------------------
(* connection.py: PLCConnection.  A call threads a state m through its      *)
(* steps: m.d is the record store, m.connected the client handle, m.log the *)
(* transport calls made so far with their outcomes.  A result is "True",    *)
(* "False", or "Raise" when an exception leaves the call.                   *)

Logged(m, e) == [m EXCEPT !.log = Append(@, e)]

\* A logged call: ok is FALSE when it raised, val is what get_connected
\* returned; "connect()" records the return of a connect() call.
Event(name, ok) ==
    [ev |-> name, ok |-> ok, val |-> FALSE, db |-> 0, start |-> 0, size |-> 0,
     data |-> <<>>]

StateCheck(m, ok) ==
    Logged(m, [Event("get_connected", ok) EXCEPT !.val = ok /\ m.connected])

Returns(r) == [r EXCEPT !.m = Logged(@, Event("connect()", r.ret = "True"))]

\* The except clauses: what each turns a transport error into
\* Faulty variants: an error that leaves the call, an error answered True
PropagateError == "Raise"
ReturnTrueOnError == "True"

ConnectOnStateCheckError == "False"
ConnectOnProbeError == "False"
ConnectOnHandshakeError == "False"
ReadOnBlockError == "False"
WriteOnStateCheckError == "False"
WriteOnBlockError == "False"

\* PLCConnection.connect; o.chk, o.probe, o.hs say whether get_connected,
\* socket.create_connection and client.connect succeed
connect(m, o, t) ==
    LET m0 == StateCheck(m, o.chk)
    IN  Returns(
        IF ~o.chk THEN [m |-> m0, ret |-> ConnectOnStateCheckError]
        ELSE IF m0.connected THEN [m |-> m0, ret |-> "True"]
        ELSE LET m1 == Logged(m0, Event("create_connection", o.probe))
             IN  IF ~o.probe THEN [m |-> m1, ret |-> ConnectOnProbeError]
                 ELSE LET m2 == Logged(m1, Event("client.connect", o.hs))
                      IN  IF ~o.hs
                          THEN [m |-> m2, ret |-> ConnectOnHandshakeError]
                          ELSE [m   |-> [m2 EXCEPT
                                            !.connected = TRUE,
                                            !.d = last_connected_setter(m2.d, t, t)],
                                ret |-> "True"])

\* Faulty variant: the second connect() is not followed by "return False"
ReadEnsureConnectedFallsThrough(m, connected, o, t) ==
    IF connected THEN [m |-> m, go |-> TRUE, ret |-> "True"]
    ELSE LET c1 == connect(m, o.c1, t)
         IN  IF c1.ret = "True" THEN [m |-> c1.m, go |-> TRUE, ret |-> "True"]
             ELSE [m |-> connect(c1.m, o.c2, t).m, go |-> TRUE, ret |-> "True"]

\* read(), "if not connected:" block.  go says whether read carries on to the
\* block read; otherwise ret is what read returns.
ReadEnsureConnected(m, connected, o, t) ==
    IF connected THEN [m |-> m, go |-> TRUE, ret |-> "True"]
    ELSE LET c1 == connect(m, o.c1, t)
         IN  IF c1.ret = "True" THEN [m |-> c1.m, go |-> TRUE, ret |-> "True"]
             ELSE IF c1.ret = "Raise" THEN [m |-> c1.m, go |-> FALSE, ret |-> "Raise"]
             ELSE LET c2 == connect(c1.m, o.c2, t)
                  IN  [m |-> c2.m, go |-> FALSE,
                       ret |-> IF c2.ret = "Raise" THEN "Raise" ELSE "False"]

\* Faulty variant: the record is decoded although the block read raised
ReadBlockDecodesOnError(fs, m, ok, data, t) ==
    LET byte_amount == buffer_size(fs)
        m1 == Logged(m, [Event("db_read", ok) EXCEPT
                            !.db = db_number, !.start = 0, !.size = byte_amount])
        r  == from_bytes(fs, m1.d, data)
        m2 == Logged(m1, Event("from_bytes", r.ok))
    IN  IF ~ok THEN [m |-> [m2 EXCEPT !.d = r.d], ret |-> ReadOnBlockError]
        ELSE [m   |-> [m2 EXCEPT !.d = last_connected_setter(r.d, t, t)],
              ret |-> "True"]

\* read(), from the block read on
ReadBlock(fs, m, ok, data, t) ==
    LET byte_amount == buffer_size(fs)
        m1 == Logged(m, [Event("db_read", ok) EXCEPT
                            !.db = db_number, !.start = 0, !.size = byte_amount])
    IN  IF ~ok THEN [m |-> m1, ret |-> ReadOnBlockError]
        ELSE LET r  == from_bytes(fs, m1.d, data)
                 m2 == Logged(m1, Event("from_bytes", r.ok))
             IN  IF ~r.ok THEN [m |-> m2, ret |-> "Raise"]
                 ELSE [m   |-> [m2 EXCEPT !.d = last_connected_setter(r.d, t, t)],
                       ret |-> "True"]

\* PLCConnection.read; o.chk0 is the first state check, o.c1 and o.c2 the
\* outcomes met by the first and second connect(), o.io the block read
read(fs, m, o, data, t) ==
    LET m0 == StateCheck(m, o.chk0)
        connected == IF o.chk0 THEN m0.connected ELSE FALSE
        e == ReadEnsureConnected(m0, connected, o, t)
    IN  IF ~e.go THEN [m |-> e.m, ret |-> e.ret]
        ELSE ReadBlock(fs, e.m, o.io, data, t)

\* Faulty variant: a successful block write does not record the sync time
WriteBlockNoSync(m, ok, new_bytes, t) ==
    LET m1 == Logged(m, [Event("db_write", ok) EXCEPT
                            !.db = db_number, !.start = 0,
                            !.size = Len(new_bytes), !.data = new_bytes])
    IN  [m |-> m1, ret |-> IF ok THEN "True" ELSE WriteOnBlockError]

\* write(), from the block write on
WriteBlock(m, ok, new_bytes, t) ==
    LET m1 == Logged(m, [Event("db_write", ok) EXCEPT
                            !.db = db_number, !.start = 0,
                            !.size = Len(new_bytes), !.data = new_bytes])
    IN  IF ~ok THEN [m |-> m1, ret |-> WriteOnBlockError]
        ELSE [m   |-> [m1 EXCEPT !.d = last_connected_setter(m1.d, t, t)],
              ret |-> "True"]

\* PLCConnection.write
write(fs, m, o, t) ==
    LET new_bytes == to_bytes(fs, m.d.values)
        m0 == StateCheck(m, o.chk0)
    IN  IF ~o.chk0 THEN [m |-> m0, ret |-> WriteOnStateCheckError]
        ELSE IF m0.connected THEN WriteBlock(m0, o.io, new_bytes, t)
        ELSE LET c1 == connect(m0, o.c1, t)
             IN  IF c1.ret = "True" THEN WriteBlock(c1.m, o.io, new_bytes, t)
                 ELSE [m |-> c1.m, ret |-> c1.ret]

\* The record store as one value, and its write-back to the variables
Store ==
    [values |-> values, last_connected |-> last_connected,
     old_is_connected |-> old_is_connected, timeouts |-> timeouts,
     subscribers |-> subscribers, queues |-> queues]

SetStore(d) ==
    /\ values' = d.values
    /\ last_connected' = d.last_connected
    /\ old_is_connected' = d.old_is_connected
    /\ timeouts' = d.timeouts
    /\ subscribers' = d.subscribers
    /\ queues' = d.queues

NoObs == [expiryNotes |-> 0, staleRuns |-> 0, syncs |-> 0, liveNotes |-> 0]
NoCall ==
    [op |-> "none", ret |-> "none", log |-> <<>>, before |-> <<>>, at |-> 0,
     vals |-> <<>>]
NoIo == [op |-> "none"]

\* The schema of examples/example.py without its REAL member:
\* pressure = PLCWordField(4), status = PLCBoolField(6, 0, settable=True)
ExampleFields ==
    << [kind |-> "word", byte_offset |-> 4, bit_offset |-> 0, size |-> 2,
        signed |-> FALSE, default |-> 0, settable |-> FALSE],
       [kind |-> "bool", byte_offset |-> 6, bit_offset |-> 0, size |-> 1,
        signed |-> FALSE, default |-> 0, settable |-> TRUE] >>

-----------------------------------------------------------------------------
(* Actions of the record store *)

\* data_store.last_connected = datetime.now()
Sync ==
    /\ Len(timeouts) < MaxTimers
    /\ LET d == last_connected_setter(Store, now, now)
       IN  /\ SetStore(d)
           /\ io' = [op        |-> "sync",
                     wasLive   |-> is_connected(last_connected, now),
                     subs      |-> subscribers,
                     delivered |-> [q \in DOMAIN queues |->
                                       d.queues[q] - queues[q]]]
    /\ obs' = [NoObs EXCEPT
                 !.syncs = IF obs.syncs < MaxTimers THEN obs.syncs + 1
                           ELSE obs.syncs]
    /\ UNCHANGED <<fields, now, client_connected, call>>

\* The event loop runs the oldest due call_later handle, at its deadline or
\* any time after it (a blocking read() or write() delays the loop)
OnConnectionTimeout ==
    /\ timeouts # <<>>
    /\ now >= Head(timeouts)
    /\ LET d    == [Store EXCEPT !.timeouts = Tail(timeouts)]
           live == is_connected(last_connected, now)
       IN  /\ SetStore(on_connection_timeout(d, now))
           /\ obs' = [obs EXCEPT
                        !.expiryNotes = IF old_is_connected # live THEN @ + 1 ELSE @,
                        !.staleRuns = IF live THEN @ ELSE 1,
                        !.liveNotes =
                            IF /\ old_is_connected # live
                               /\ live
                               /\ now > Head(timeouts)
                            THEN 1 ELSE @]
    /\ UNCHANGED <<fields, now, client_connected, call, io>>

Tick ==
    /\ now < MaxTime
    /\ now' = now + 1
    /\ UNCHANGED <<fields, values, last_connected, old_is_connected, timeouts,
                   subscribers, queues, client_connected, call, io, obs>>

\* PLCData.subscribe: a new, empty queue joins the list
Subscribe ==
    \E q \in DOMAIN queues :
        /\ q \notin Range(subscribers)
        /\ subscribers' = Append(subscribers, q)
        /\ queues' = [queues EXCEPT ![q] = 0]
        /\ UNCHANGED <<fields, values, last_connected, old_is_connected, timeouts,
                       now, client_connected, call, io, obs>>

-----------------------------------------------------------------------------
(* Actions of the connection manager *)

Manager == [d |-> Store, connected |-> client_connected, log |-> <<>>]

\* Outcomes of the transport calls of one connect(): whether get_connected,
\* the TCP probe and the protocol connect succeed.  A call that is not reached
\* (after an earlier failure, or on a handle that reports connected) has no
\* outcome, written TRUE.
ConnectOutcomes(connected) ==
    {c \in [chk : BOOLEAN, probe : BOOLEAN, hs : BOOLEAN] :
        /\ (~c.chk => c.probe /\ c.hs)
        /\ (~c.probe => c.hs)
        /\ (connected /\ c.chk => c.probe /\ c.hs)}

Succeeds(c) == c.chk /\ c.probe /\ c.hs

\* Outcomes of the transport calls of one read() or write(): the first state
\* check, the connect() attempts, the block transfer.  No connect() is
\* reached when the handle reports connected, the second only after the
\* first failed, the transfer never after it.
CallOutcomes(connected) ==
    {o \in [chk0 : BOOLEAN, c1 : ConnectOutcomes(connected),
            c2 : ConnectOutcomes(connected), io : BOOLEAN] :
        /\ (connected /\ o.chk0 => Succeeds(o.c1))
        /\ (Succeeds(o.c1) => Succeeds(o.c2))
        /\ (~Succeeds(o.c1) => o.io)}

ZeroBlock == [i \in 1..buffer_size(ExampleFields) |-> 0]

\* What a successful db_read may return: byte_amount bytes, here all zero or
\* with the bytes of the two fields set
DeviceBlocks ==
    {ZeroBlock,
     [ZeroBlock EXCEPT ![6] = 1],
     [ZeroBlock EXCEPT ![5] = 255, ![6] = 1, ![7] = 1]}

\* A call of the manager has run: store, handle and call record are updated
Returned(op, r) ==
    /\ SetStore(r.m.d)
    /\ client_connected' = r.m.connected
    /\ call' = [op |-> op, ret |-> r.ret, log |-> r.m.log,
                before |-> last_connected, at |-> now, vals |-> values]
    /\ obs' = IF Len(r.m.d.timeouts) > Len(timeouts)
              THEN [NoObs EXCEPT !.syncs = 1] ELSE obs
    /\ UNCHANGED <<fields, now, io>>

Connect ==
    /\ Len(timeouts) < MaxTimers
    /\ \E o \in ConnectOutcomes(client_connected) :
          Returned("connect", connect(Manager, o, now))

Read ==
    /\ Len(timeouts) < MaxTimers
    /\ \E o \in CallOutcomes(client_connected) :
          \E data \in IF o.io THEN DeviceBlocks ELSE {ZeroBlock} :
              Returned("read", read(fields, Manager, o, data, now))

Write ==
    /\ Len(timeouts) < MaxTimers
    /\ \E o \in CallOutcomes(client_connected) :
          Returned("write", write(fields, Manager, o, now))

\* The device or the network ends the session
LinkDown ==
    /\ client_connected
    /\ client_connected' = FALSE
    /\ UNCHANGED <<fields, values, last_connected, old_is_connected, timeouts,
                   subscribers, queues, now, call, io, obs>>

\* PLCData.unsubscribe: the queue leaves the list, if it is in it
Remove(seq, q) == SelectSeq(seq, LAMBDA x : x # q)

Unsubscribe ==
    \E q \in DOMAIN queues :
        /\ subscribers' = IF q \in Range(subscribers)
                          THEN Remove(subscribers, q) ELSE subscribers
        /\ UNCHANGED <<fields, values, last_connected, old_is_connected, timeouts,
                       queues, now, client_connected, call, io, obs>>

InitStore ==
    /\ fields = ExampleFields
    /\ values = [i \in DOMAIN ExampleFields |-> ExampleFields[i].default]
    /\ last_connected = <<>>
    /\ old_is_connected = FALSE
    /\ timeouts = <<>>
    /\ subscribers = <<>>
    /\ queues = [q \in 1..MaxSubs |-> 0]
    /\ now = 0
    /\ client_connected = FALSE
    /\ call = NoCall
    /\ io = NoIo
    /\ obs = NoObs

NextLive == Sync \/ OnConnectionTimeout \/ Tick \/ Subscribe \/ Unsubscribe

SpecLive == InitStore /\ [][NextLive]_vars

Next == Connect \/ Read \/ Write \/ LinkDown \/ Tick \/ OnConnectionTimeout

Spec == InitStore /\ [][Next]_vars


-----------------------------------------------------------------------------
(* The codec on its own.  SpecRoundTrip draws a schema and in-range values  *)
(* and applies from_bytes(to_bytes()); SpecDecode draws a schema, values and *)
(* a buffer and applies from_bytes; SpecBits applies PLCBoolField.write to   *)
(* drawn buffers, for every byte value and bit offset.                      *)

BoolField(byte_offset, bit_offset) ==
    [kind |-> "bool", byte_offset |-> byte_offset, bit_offset |-> bit_offset,
     size |-> 1, signed |-> FALSE, default |-> 0, settable |-> FALSE]

WordField(byte_offset, signed) ==
    [kind |-> "word", byte_offset |-> byte_offset, bit_offset |-> 0,
     size |-> 2, signed |-> signed, default |-> 0, settable |-> FALSE]

\* Bit offsets of the drawn schemas: the lowest, the highest, one between
BitOffsets == {0, 3, 7}

FieldSpace ==
    {BoolField(b, k) : b \in 0..MaxByteOffset, k \in BitOffsets}
        \cup {WordField(b, sg) : b \in 0..MaxByteOffset, sg \in BOOLEAN}

Schemas == UNION {[1..n -> FieldSpace] : n \in 1..MaxFields}

\* In-range values a field may hold
Samples(f) ==
    IF f.kind = "bool" THEN {0, 1}
    ELSE IF f.signed THEN {-32768, -1, 0, 258}
    ELSE {0, 258, 32768, 65535}

Assignments(fs) ==
    {v \in [DOMAIN fs -> UNION {Samples(f) : f \in FieldSpace}] :
        \A i \in DOMAIN fs : v[i] \in Samples(fs[i])}

\* Values held before a decode: every field at 1 or 258, or every field at
\* its other extreme
Before(fs) ==
    {[i \in DOMAIN fs |-> IF fs[i].kind = "bool" THEN 1 ELSE 258],
     [i \in DOMAIN fs |-> IF fs[i].kind = "bool" THEN 0
                          ELSE IF fs[i].signed THEN -32768 ELSE 65535]}

ByteSamples == {0, 129, 255}

\* Buffers of every length up to the longest a schema needs
Buffers == UNION {[1..n -> ByteSamples] : n \in 0..(MaxByteOffset + 2)}

InitCodec ==
    /\ fields \in Schemas
    /\ last_connected = <<>>
    /\ old_is_connected = FALSE
    /\ timeouts = <<>>
    /\ subscribers = <<>>
    /\ queues = [q \in 1..MaxSubs |-> 0]
    /\ now = 0
    /\ client_connected = FALSE
    /\ call = NoCall
    /\ io = NoIo
    /\ obs = NoObs

InitRoundTrip == InitCodec /\ values \in Assignments(fields)

InitDecode == InitCodec /\ values \in Before(fields)

\* data_store.from_bytes(raw)
FromBytes ==
    /\ io.op = "none"
    /\ \E raw \in Buffers :
          LET r == from_bytes(fields, Store, raw)
          IN  /\ SetStore(r.d)
              /\ io' = [op |-> "from_bytes", raw |-> raw, pre |-> values,
                        ok |-> r.ok]
    /\ UNCHANGED <<fields, now, client_connected, call, obs>>

\* data_store.from_bytes(data_store.to_bytes())
RoundTrip ==
    /\ io.op = "none"
    /\ LET raw == to_bytes(fields, values)
           r   == from_bytes(fields, Store, raw)
       IN  /\ SetStore(r.d)
           /\ io' = [op |-> "round_trip", raw |-> raw, pre |-> values,
                     ok |-> r.ok]
    /\ UNCHANGED <<fields, now, client_connected, call, obs>>

SpecRoundTrip == InitRoundTrip /\ [][RoundTrip]_vars

SpecDecode == InitDecode /\ [][FromBytes]_vars

\* field.write(buffer, value) for a bit field in a two-byte buffer
BoolWriteOne ==
    /\ io.op = "none"
    /\ \E b \in 0..255, other \in ByteSamples, at \in 0..1, k \in 0..7,
          v \in {0, 1} :
          LET buffer == IF at = 0 THEN <<b, other>> ELSE <<other, b>>
              f == BoolField(at, k)
          IN  io' = [op |-> "bool_write", buffer |-> buffer, f |-> f,
                     value |-> v, out |-> FieldWrite(f, buffer, v)]
    /\ UNCHANGED <<fields, values, last_connected, old_is_connected, timeouts,
                   subscribers, queues, now, client_connected, call, obs>>

\* Two bit fields of one byte written in both orders
BoolWritePair ==
    /\ io.op = "none"
    /\ \E b \in 0..255, k1 \in 0..7, k2 \in 0..7, v1 \in {0, 1}, v2 \in {0, 1} :
          /\ k1 # k2
          /\ LET f1 == BoolField(0, k1)
                 f2 == BoolField(0, k2)
             IN  io' = [op |-> "bool_write_pair", buffer |-> <<b>>,
                        f1 |-> f1, f2 |-> f2, v1 |-> v1, v2 |-> v2,
                        out12 |-> FieldWrite(f2, FieldWrite(f1, <<b>>, v1), v2),
                        out21 |-> FieldWrite(f1, FieldWrite(f2, <<b>>, v2), v1)]
    /\ UNCHANGED <<fields, values, last_connected, old_is_connected, timeouts,
                   subscribers, queues, now, client_connected, call, obs>>

NextBits == BoolWriteOne \/ BoolWritePair

SpecBits == InitStore /\ [][NextBits]_vars

-----------------------------------------------------------------------------
-----------------------------------------------------------------------------
(* Encoding.  SpecEncode draws a schema, among them the empty one and the   *)
(* record of examples/example.py with its REAL member, and values; it        *)
(* applies to_bytes, before or after a decode of a block of the device.      *)

\* examples/example.py: temperature = PLCRealField(0),
\* pressure = PLCWordField(4), status = PLCBoolField(6, 0, settable=True)
MyPLCData ==
    <<[kind |-> "real", byte_offset |-> 0, bit_offset |-> 0, size |-> 4,
       signed |-> FALSE, default |-> 0, settable |-> FALSE]>>
        \o ExampleFields

HasReal(fs) == \E i \in DOMAIN fs : fs[i].kind = "real"

\* Values held before the encode
EncodeValues(fs) ==
    IF HasReal(fs)
    THEN {<<0, 0, 0>>, <<0, 0, 1>>, <<1, 258, 1>>, <<-MaxReal, 65535, 0>>}
    ELSE Before(fs) \cup {[i \in DOMAIN fs |-> 0]}

\* A block of the device with every bit set, but for the bytes of a REAL
\* member, which hold 1.0
OnesBlock(fs) ==
    [j \in 1..buffer_size(fs) |->
        IF \E i \in DOMAIN fs :
              /\ fs[i].kind = "real"
              /\ j - 1 \in fs[i].byte_offset..(fs[i].byte_offset + 3)
        THEN LET i == CHOOSE i \in DOMAIN fs :
                         /\ fs[i].kind = "real"
                         /\ j - 1 \in fs[i].byte_offset..(fs[i].byte_offset + 3)
             IN  FloatBytes(1)[j - fs[i].byte_offset]
        ELSE 255]

InitEncode ==
    /\ fields \in Schemas \cup {<<>>, MyPLCData}
    /\ values \in EncodeValues(fields)
    /\ last_connected = <<>>
    /\ old_is_connected = FALSE
    /\ timeouts = <<>>
    /\ subscribers = <<>>
    /\ queues = [q \in 1..MaxSubs |-> 0]
    /\ now = 0
    /\ client_connected = FALSE
    /\ call = NoCall
    /\ io = NoIo
    /\ obs = NoObs

\* data_store.from_bytes(data) with the block of the device
DecodeOnes ==
    /\ io.op = "none"
    /\ LET raw == OnesBlock(fields)
           r   == from_bytes(fields, Store, raw)
       IN  /\ SetStore(r.d)
           /\ io' = [op |-> "from_bytes", raw |-> raw, pre |-> values,
                     ok |-> r.ok]
    /\ UNCHANGED <<fields, now, client_connected, call, obs>>

\* data_store.to_bytes()
ToBytes ==
    /\ io.op \in {"none", "from_bytes"}
    /\ io' = [op |-> "to_bytes", out |-> to_bytes(fields, values),
              decoded |-> io.op = "from_bytes"]
    /\ UNCHANGED <<fields, values, last_connected, old_is_connected, timeouts,
                   subscribers, queues, now, client_connected, call, obs>>

NextEncode == DecodeOnes \/ ToBytes

SpecEncode == InitEncode /\ [][NextEncode]_vars

-----------------------------------------------------------------------------
(* Assignment.  A keyword argument list is a sequence of <<key, value>>     *)
(* pairs with distinct keys, in the order the caller wrote them; a key is    *)
(* the position of a field in the schema, or UnknownKey for a name the       *)
(* schema does not declare.                                                  *)

UnknownKey == 0

\* PLCField.__set__ reached through setattr(self, key, value)
field_set(fs, vals, key, value) ==
    [vals EXCEPT ![key] = coerce(fs[key], value)]

RECURSIVE InitialValues(_, _, _, _)
\* The loop of PLCData.__init__ over initial_values, from its i-th item
InitialValues(fs, vals, initial_values, i) ==
    IF i > Len(initial_values) THEN vals
    ELSE LET key   == initial_values[i][1]
             value == initial_values[i][2]
         IN  InitialValues(fs,
                 IF key \in DOMAIN fs THEN field_set(fs, vals, key, value)
                 ELSE vals,
                 initial_values, i + 1)

\* PLCData.__init__(**initial_values): the values of a new instance
NewValues(fs, initial_values) ==
    InitialValues(fs, [k \in DOMAIN fs |-> coerce(fs[k], fs[k].default)],
                  initial_values, 1)

RECURSIVE SetLoopComparesRaw(_, _, _, _, _)
\* Faulty variant: the new value is compared before it is coerced
SetLoopComparesRaw(fs, vals, kwargs, i, processed) ==
    IF i > Len(kwargs) THEN [values |-> vals, processed |-> processed]
    ELSE LET key   == kwargs[i][1]
             value == kwargs[i][2]
         IN  IF key \notin DOMAIN fs \/ ~fs[key].settable
             THEN SetLoopComparesRaw(fs, vals, kwargs, i + 1, processed)
             ELSE IF vals[key] = value
             THEN SetLoopComparesRaw(fs, vals, kwargs, i + 1, processed)
             ELSE SetLoopComparesRaw(fs, field_set(fs, vals, key, value),
                                     kwargs, i + 1, TRUE)

RECURSIVE SetLoop(_, _, _, _, _)
\* The loop of PLCData.set_data over kwargs, from its i-th item
SetLoop(fs, vals, kwargs, i, processed) ==
    IF i > Len(kwargs) THEN [values |-> vals, processed |-> processed]
    ELSE LET key   == kwargs[i][1]
             value == kwargs[i][2]
         IN  IF key \notin DOMAIN fs \/ ~fs[key].settable
             THEN SetLoop(fs, vals, kwargs, i + 1, processed)
             ELSE IF vals[key] = coerce(fs[key], value)
             THEN SetLoop(fs, vals, kwargs, i + 1, processed)
             ELSE SetLoop(fs, field_set(fs, vals, key, value), kwargs,
                          i + 1, TRUE)

\* PLCData.set_data(**kwargs)
set_data(fs, d, kwargs) ==
    LET r  == SetLoop(fs, d.values, kwargs, 1, FALSE)
        d1 == [d EXCEPT !.values = r.values]
    IN  IF r.processed THEN notify_subscribers(d1) ELSE d1

\* Items each queue gained between two states of the store
Delivered(before, after) ==
    [q \in DOMAIN before |-> after[q] - before[q]]

\* A record type with a settable 16-bit field of either signedness, a
\* 16-bit field of the other signedness that is not settable, and a settable
\* bit; default is what the declarations pass as default=
DeclaredFields(signed, default) ==
    <<[kind |-> "word", byte_offset |-> 0, bit_offset |-> 0, size |-> 2,
       signed |-> signed, default |-> default, settable |-> TRUE],
      [kind |-> "word", byte_offset |-> 2, bit_offset |-> 0, size |-> 2,
       signed |-> ~signed, default |-> default, settable |-> FALSE],
      [kind |-> "bool", byte_offset |-> 4, bit_offset |-> 0, size |-> 1,
       signed |-> FALSE, default |-> BoolCoerce(default),
       settable |-> TRUE]>>

\* Integers assigned directly: both ranges' ends, their neighbours, and
\* values far outside
IntSamples ==
    {-40000, -32769, -32768, -5, 0, 1, 32767, 32768, 40000, 65535, 65536,
     100000}

DefaultSamples == {-5, 0, 40000, 100000}

SetSamples == {-40000, 0, 100000}

Keys == {UnknownKey, 1, 2, 3}

\* Keyword argument lists of at most n items
KwargsUpTo(n) ==
    {kw \in UNION {[1..m -> Keys \X SetSamples] : m \in 0..n} :
        \A i, j \in DOMAIN kw : i # j => kw[i][1] # kw[j][1]}

\* A new instance of a declared record type, built with at most one override
InitSet ==
    /\ \E signed \in BOOLEAN, default \in DefaultSamples,
          initial_values \in KwargsUpTo(1) :
          /\ fields = DeclaredFields(signed, default)
          /\ values = NewValues(fields, initial_values)
          /\ io = [op |-> "new", initial_values |-> initial_values]
    /\ last_connected = <<>>
    /\ old_is_connected = FALSE
    /\ timeouts = <<>>
    /\ subscribers = <<>>
    /\ queues = [q \in 1..MaxSubs |-> 0]
    /\ now = 0
    /\ client_connected = FALSE
    /\ call = NoCall
    /\ obs = NoObs

\* data_store.<field> = value
Assign ==
    /\ io.op = "new"
    /\ \E key \in DOMAIN fields, value \in IntSamples :
          /\ values' = field_set(fields, values, key, value)
          /\ io' = [op |-> "assign", key |-> key, value |-> value,
                    pre |-> values]
    /\ UNCHANGED <<fields, last_connected, old_is_connected, timeouts,
                   subscribers, queues, now, client_connected, call, obs>>

\* data_store.set_data(**kwargs)
SetData ==
    /\ io.op = "new"
    /\ \E kwargs \in KwargsUpTo(2) :
          LET d == set_data(fields, Store, kwargs)
          IN  /\ SetStore(d)
              /\ io' = [op |-> "set_data", kwargs |-> kwargs,
                        pre |-> values, subs |-> subscribers,
                        delivered |-> Delivered(queues, d.queues)]
    /\ UNCHANGED <<fields, now, client_connected, call, obs>>

NextSet == Assign \/ SetData \/ Subscribe

SpecSet == InitSet /\ [][NextSet]_vars

-----------------------------------------------------------------------------
(* Fan-out.  The record of examples/example.py with subscribers that never  *)
(* take an item from their queue.  The polling loop decodes one block, or    *)
(* runs from_bytes on the same block often enough to fill a queue; from_bytes *)
(* does not yield to the event loop, so nothing else runs until the loop of  *)
(* polls is over.                                                            *)

\* What the last notifying call did: the subscribers it found, which of
\* their queues were full, what each queue gained and how many fields it
\* changed.  calls counts the polling loops and set_data calls made so far,
\* left the polls the running loop has still to make with the block raw.
Fanned(op, before, after, calls, left, raw) ==
    [op        |-> op,
     changed   |-> Cardinality({k \in DOMAIN before.values :
                                   before.values[k] # after.values[k]}),
     subs      |-> before.subscribers,
     full      |-> {q \in Range(before.subscribers) :
                       before.queues[q] = QueueMaxSize},
     delivered |-> Delivered(before.queues, after.queues),
     calls     |-> calls,
     left      |-> left,
     raw       |-> raw]

CallsSoFar == IF io.op = "none" THEN 0 ELSE io.calls

\* No polling loop is running
Idle == IF io.op = "none" THEN TRUE ELSE io.left = 0

\* How many blocks one polling loop decodes
PollRuns == {1, QueueMaxSize - 1}

\* data_store.from_bytes(data): the first poll of a loop of n polls with the
\* block the device returned, or the next poll of the running loop
Poll ==
    /\ \E raw \in IF Idle THEN DeviceBlocks ELSE {io.raw},
          n \in IF Idle THEN PollRuns ELSE {io.left} :
          /\ Idle => CallsSoFar < MaxCalls
          /\ LET r == from_bytes(fields, Store, raw)
             IN  /\ SetStore(r.d)
                 /\ io' = Fanned("from_bytes", Store, r.d,
                                 IF Idle THEN CallsSoFar + 1 ELSE io.calls,
                                 n - 1, raw)
    /\ UNCHANGED <<fields, now, client_connected, call, obs>>

\* data_store.set_data(status=value)
SetStatus ==
    /\ Idle
    /\ CallsSoFar < MaxCalls
    /\ \E value \in {0, 1} :
          LET d == set_data(fields, Store, <<<<2, value>>>>)
          IN  /\ SetStore(d)
              /\ io' = Fanned("set_data", Store, d, CallsSoFar + 1, 0, <<>>)
    /\ UNCHANGED <<fields, now, client_connected, call, obs>>

\* data_store.last_connected = datetime.now(), as connect(), read() and
\* write() do on success
Stamp ==
    /\ Idle
    /\ CallsSoFar < MaxCalls
    /\ Len(timeouts) < MaxTimers
    /\ LET d == last_connected_setter(Store, now, now)
       IN  /\ SetStore(d)
           /\ io' = Fanned("sync", Store, d, CallsSoFar + 1, 0, <<>>)
    /\ UNCHANGED <<fields, now, client_connected, call, obs>>

NextFan ==
    \/ Poll
    \/ SetStatus
    \/ Stamp
    \/ Idle /\ Subscribe
    \/ Idle /\ Unsubscribe

SpecFan == InitStore /\ [][NextFan]_vars

-----------------------------------------------------------------------------
(* The whole record.  SpecValues builds the record of the example, with the *)
(* 16-bit member unsigned or signed and an out-of-range default, and lets    *)
(* decodes, assignments, set_data calls and the calls of the manager follow  *)
(* one another in any order.                                                 *)

\* examples/example.py with pressure = PLCWordField(4, default=default,
\* signed=signed)
PressureFields(signed, default) ==
    [ExampleFields EXCEPT ![1].signed = signed, ![1].default = default]

\* Buffers of any length up to a whole block: every bit set, or the highest
\* bit of the 16-bit member set
AnyBuffers ==
    {SubSeq(b, 1, n) :
        b \in {[i \in 1..Len(ZeroBlock) |-> 255],
               [ZeroBlock EXCEPT ![5] = 128, ![7] = 255]},
        n \in 0..Len(ZeroBlock)}

InitValues ==
    /\ \E signed \in BOOLEAN, initial_values \in KwargsUpTo(1) :
          /\ fields = PressureFields(signed, 100000)
          /\ values = NewValues(fields, initial_values)
    /\ last_connected = <<>>
    /\ old_is_connected = FALSE
    /\ timeouts = <<>>
    /\ subscribers = <<>>
    /\ queues = [q \in 1..MaxSubs |-> 0]
    /\ now = 0
    /\ client_connected = FALSE
    /\ call = NoCall
    /\ io = NoIo
    /\ obs = NoObs

\* data_store.from_bytes(raw) with a buffer of any length
DecodeAny ==
    /\ \E raw \in AnyBuffers :
          LET r == from_bytes(fields, Store, raw)
          IN  /\ r.ok
              /\ SetStore(r.d)
    /\ UNCHANGED <<fields, now, client_connected, call, io, obs>>

\* data_store.<field> = value
AssignAny ==
    /\ \E key \in DOMAIN fields, value \in SetSamples :
          values' = field_set(fields, values, key, value)
    /\ UNCHANGED <<fields, last_connected, old_is_connected, timeouts,
                   subscribers, queues, now, client_connected, call, io, obs>>

\* data_store.set_data(**kwargs)
SetAny ==
    /\ \E kwargs \in KwargsUpTo(1) :
          SetStore(set_data(fields, Store, kwargs))
    /\ UNCHANGED <<fields, now, client_connected, call, io, obs>>

NextValues ==
    DecodeAny \/ AssignAny \/ SetAny \/ Connect \/ Read \/ Write \/ LinkDown

SpecValues == InitValues /\ [][NextValues]_vars

-----------------------------------------------------------------------------
(* Properties of the connection manager, checked under Spec *)

\* Positions in the last call's log of the transport calls named name
Calls(name) == {i \in DOMAIN call.log : call.log[i].ev = name}

Failed(name) == \E i \in Calls(name) : ~call.log[i].ok
Succeeded(name) == \E i \in Calls(name) : call.log[i].ok

\* The first connect() made by the last call returned False
FirstConnectFailed ==
    /\ Calls("connect()") # {}
    /\ \A i \in Calls("connect()") :
          (\A j \in Calls("connect()") : i <= j) => ~call.log[i].ok

\* C1: whatever the state check, the TCP probe, the protocol connect, the
\* block read and the block write do, connect(), read() and write() return
\* True or False; no error leaves the call.
C1_ReturnsBoolean ==
    call.op \in {"connect", "read", "write"} => call.ret \in {"True", "False"}

\* A read() whose block read raised, and which returned False
C1_Witness ==
    /\ call.op = "read"
    /\ Failed("db_read")
    /\ call.ret = "False"

\* C2: one read() calls connect() at most twice, and once its first attempt
\* has failed it returns False and issues no block read.
C2_ReadConnectsAtMostTwice ==
    call.op = "read" =>
        /\ Cardinality(Calls("connect()")) <= 2
        /\ (FirstConnectFailed =>
                call.ret = "False" /\ Calls("db_read") = {})

\* A read() that made two connect() attempts, both failed
C2_Witness ==
    /\ call.op = "read"
    /\ Cardinality(Calls("connect()")) = 2
    /\ ~Succeeded("connect()")
    /\ call.ret = "False"

\* C3: when either connect() attempt of a read() succeeds, read() requests
\* buffer_size() bytes of block db_number at offset 0 and returns True if that
\* block read succeeds; it skips the block read only when no attempt succeeded.
C3_ReadsAfterAnySuccessfulConnect ==
    (call.op = "read" /\ Succeeded("connect()")) =>
        /\ \E i \in Calls("db_read") :
              /\ call.log[i].db = db_number
              /\ call.log[i].start = 0
              /\ call.log[i].size = buffer_size(fields)
        /\ (Succeeded("db_read") => call.ret = "True")

\* C4: connect() answers True at once when the handle reports connected;
\* otherwise the protocol connect is made only after the TCP probe succeeded;
\* a True return on that path means the protocol connect succeeded and the
\* sync timestamp is the time of the call; a False return leaves the sync
\* timestamp as it was.
C4_Connect ==
    call.op = "connect" =>
        /\ (call.log[1].ok /\ call.log[1].val =>
                /\ call.ret = "True"
                /\ Calls("create_connection") = {}
                /\ Calls("client.connect") = {})
        /\ (\A i \in Calls("client.connect") :
                \E j \in Calls("create_connection") : j < i /\ call.log[j].ok)
        /\ (call.ret = "True" /\ ~call.log[1].val =>
                Succeeded("client.connect") /\ last_connected = <<call.at>>)
        /\ (call.ret = "False" => last_connected = call.before)

\* A connect() through probe and protocol connect that moved the timestamp
C4_Witness ==
    /\ call.op = "connect"
    /\ call.ret = "True"
    /\ Succeeded("create_connection")
    /\ Succeeded("client.connect")
    /\ last_connected = <<call.at>>
    /\ call.before # last_connected

\* C5: write() calls connect() at most once; if that attempt fails it returns
\* False and issues no block write; a block write carries the bytes of
\* to_bytes() to block db_number at offset 0; and write() returns True, with
\* the sync timestamp the time of the call, exactly when the block write
\* succeeds.
C5_Write ==
    call.op = "write" =>
        /\ Cardinality(Calls("connect()")) <= 1
        /\ (Failed("connect()") => call.ret = "False" /\ Calls("db_write") = {})
        /\ ((call.log[1].val \/ Succeeded("connect()")) =>
                Cardinality(Calls("db_write")) = 1)
        /\ (\A i \in Calls("db_write") :
                /\ call.log[i].db = db_number
                /\ call.log[i].start = 0
                /\ call.log[i].data = to_bytes(fields, values))
        /\ (Succeeded("db_write") <=>
                (call.ret = "True" /\ last_connected = <<call.at>>))
        /\ (call.ret = "True" <=> Succeeded("db_write"))

\* A write() that connected first and then wrote a record that is not all zero
C5_Witness ==
    /\ call.op = "write"
    /\ Succeeded("connect()")
    /\ Succeeded("db_write")
    /\ call.ret = "True"
    /\ \E i \in Calls("db_write"), k \in 1..buffer_size(fields) :
          call.log[i].data[k] # 0
    /\ call.before # last_connected

\* The state check that opens the last call raised
FirstStateCheckFailed ==
    /\ call.log # <<>>
    /\ call.log[1].ev = "get_connected"
    /\ ~call.log[1].ok

\* C17: when the state check that opens connect(), read() or write() raises,
\* the call goes on as for a handle that reported not connected: connect()
\* goes on to the TCP probe, read() and write() go on to connect().
C17_StateCheckFailureMeansNotConnected ==
    FirstStateCheckFailed =>
        /\ call.op = "connect" => Calls("create_connection") # {}
        /\ call.op \in {"read", "write"} => Calls("connect()") # {}

\* C20: a read() or write() that returns False leaves every field value as it
\* was and does not run from_bytes, so sends no decode notification; write()
\* never changes a field value; the values change only in a read() whose
\* block read succeeded.
C20_FailedCallKeepsValues ==
    /\ (call.op \in {"read", "write"} /\ call.ret = "False") =>
          /\ values = call.vals
          /\ Calls("from_bytes") = {}
    /\ call.op \in {"write", "connect"} =>
          /\ values = call.vals
          /\ Calls("from_bytes") = {}
    /\ (call.op = "read" /\ values # call.vals) => Succeeded("db_read")

\* A read() whose block read raised, on a record holding values read before
C20_Witness ==
    /\ call.op = "read"
    /\ call.ret = "False"
    /\ Failed("db_read")
    /\ values = call.vals
    /\ \E k \in DOMAIN values : values[k] # 0

\* A write() that succeeded on a record holding values read before
C20_WitnessWrite ==
    /\ call.op = "write"
    /\ call.ret = "True"
    /\ values = call.vals
    /\ \E k \in DOMAIN values : values[k] # 0

-----------------------------------------------------------------------------
(* Properties of the liveness timer, checked under SpecLive *)

\* C6: with no sync timestamp the instance is not live; right after a sync it
\* is live; and once the window has passed after the last of one or more
\* syncs and the expiry timer has looked at the stale instance, exactly one
\* notification has been sent for that LIVE-to-STALE transition.
C6_LivenessExpiry ==
    /\ (last_connected = <<>> => ~is_connected(last_connected, now))
    /\ (last_connected = <<now>> => is_connected(last_connected, now))
    /\ ((obs.syncs >= 1 /\ obs.staleRuns = 1 /\ timeouts = <<>>) =>
            obs.expiryNotes = 1)

\* C7: a new sync cancels the timer armed by the previous one, so at most one
\* expiry timer is pending.
C7_AtMostOneTimerPending == Len(timeouts) <= 1

\* C15: a timer callback, whether it runs at its deadline or later and
\* whatever syncs ran before it, sends no notification while the instance is
\* live, and the callbacks send at most one notification after the last sync.
C15_TimerNotifiesOnlyOnExpiry ==
    /\ obs.liveNotes = 0
    /\ obs.expiryNotes <= 1

\* C16: the assignment of last_connected puts one notification in every
\* subscriber queue when the instance was not live just before it, and none
\* when it was live.
C16_SyncNotifiesOnRevival ==
    io.op = "sync" =>
        \A q \in DOMAIN io.delivered :
            io.delivered[q] =
                IF q \in Range(io.subs) /\ ~io.wasLive THEN 1 ELSE 0

\* A sync of an instance that had been synced before and had gone stale
C16_Witness ==
    /\ io.op = "sync"
    /\ ~io.wasLive
    /\ obs.syncs >= 2
    /\ io.subs # <<>>
    /\ \A q \in Range(io.subs) : io.delivered[q] = 1

\* A sync of a live instance
C16_WitnessLive ==
    /\ io.op = "sync"
    /\ io.wasLive
    /\ io.subs # <<>>
    /\ \A q \in Range(io.subs) : io.delivered[q] = 0

-----------------------------------------------------------------------------
(* Properties of the codec, checked under SpecRoundTrip, SpecBits and       *)
(* SpecDecode                                                               *)

\* The bits of the buffer a field owns, as <<byte, bit>> pairs
OwnedBits(f) ==
    IF f.kind = "bool" THEN {<<f.byte_offset, f.bit_offset>>}
    ELSE {<<b, k>> : b \in f.byte_offset..(f.byte_offset + f.size - 1), k \in 0..7}

NoOverlap(fs) ==
    \A i \in DOMAIN fs, j \in DOMAIN fs :
        i # j => OwnedBits(fs[i]) \cap OwnedBits(fs[j]) = {}

\* C8, as claimed: for any schema of bit and 16-bit fields at any offsets and
\* any in-range values, from_bytes(to_bytes()) leaves every field's value as
\* it was.
C8_RoundTrip ==
    io.op = "round_trip" => io.ok /\ values = io.pre

\* C8, amended: the same for any schema in which no two fields own the same
\* bit of the buffer.
C8_RoundTripNoOverlap ==
    (io.op = "round_trip" /\ NoOverlap(fields)) => io.ok /\ values = io.pre

\* A round trip of a signed word and a bit field behind it, both non-zero
C8_Witness ==
    /\ io.op = "round_trip"
    /\ NoOverlap(fields)
    /\ Len(fields) = 2
    /\ fields[1].kind = "word" /\ fields[1].signed /\ io.pre[1] = -1
    /\ fields[2].kind = "bool" /\ io.pre[2] = 1
    /\ values = io.pre

\* C9: writing a bit field sets bit bit_offset of byte byte_offset to the
\* value and changes no other bit of the buffer; writing two bit fields of
\* one byte gives the same byte in either order.
C9_BitIsolation ==
    /\ io.op = "bool_write" =>
          /\ Len(io.out) = Len(io.buffer)
          /\ \A j \in DOMAIN io.buffer, k \in 0..7 :
                IF j = io.f.byte_offset + 1 /\ k = io.f.bit_offset
                THEN BitOf(io.out[j], k) = io.value
                ELSE BitOf(io.out[j], k) = BitOf(io.buffer[j], k)
    /\ io.op = "bool_write_pair" => io.out12 = io.out21

\* Bit 0 set and bit 1 cleared in the byte 0xAA, in both orders: 0xA9
C9_Witness ==
    /\ io.op = "bool_write_pair"
    /\ io.buffer = <<170>>
    /\ io.f1.bit_offset = 0 /\ io.v1 = 1
    /\ io.f2.bit_offset = 1 /\ io.v2 = 0
    /\ io.out12 = <<169>>

\* The value a fully covered field has in raw
Decoded(f, raw) ==
    IF f.kind = "bool"
    THEN (raw[f.byte_offset + 1] \div Pow2(f.bit_offset)) % 2
    ELSE LET u == raw[f.byte_offset + 1] * 256 + raw[f.byte_offset + 2]
         IN  IF f.signed /\ u >= 32768 THEN u - 65536 ELSE u

\* C10: from_bytes on a buffer of any length raises nothing; a field whose
\* bytes [byte_offset, byte_offset+size) are not all in the buffer keeps its
\* value, every other field takes the value the buffer holds for it.
C10_TruncatedBuffer ==
    io.op = "from_bytes" =>
        /\ io.ok
        /\ \A i \in DOMAIN fields :
              IF fields[i].byte_offset + fields[i].size <= Len(io.raw)
              THEN values[i] = Decoded(fields[i], io.raw)
              ELSE values[i] = io.pre[i]

\* A buffer that covers the bit field but only half of the word after it
C10_Witness ==
    /\ io.op = "from_bytes"
    /\ Len(fields) = 2
    /\ fields[1].kind = "bool" /\ fields[1].byte_offset = 0
    /\ fields[2].kind = "word" /\ fields[2].byte_offset = 1
    /\ Len(io.raw) = 2
    /\ values[1] # io.pre[1]
    /\ values[2] = io.pre[2] /\ io.pre[2] = 258

-----------------------------------------------------------------------------
(* Properties of assignment, checked under SpecSet *)

\* min(max(v, lo), hi) over the range of the 16-bit field f
Clamped(f, v) ==
    LET lo == IF f.signed THEN -32768 ELSE 0
        hi == IF f.signed THEN 32767 ELSE 65535
    IN  IF v < lo THEN lo ELSE IF v > hi THEN hi ELSE v

\* The value the keyword list kw gives for key, when it names key
Given(kw, key) == {kw[i][2] : i \in {j \in DOMAIN kw : kw[j][1] = key}}

WordKeys == {k \in DOMAIN fields : fields[k].kind = "word"}

\* C11: a 16-bit field holds min(max(v, lo), hi) of the integer v it was
\* given, with [lo, hi] = [0, 65535] unsigned and [-32768, 32767] signed,
\* whether v came by direct assignment, by set_data on a settable field, as
\* a construction override, or as the declared default.
C11_Clamping ==
    /\ io.op = "assign" /\ io.key \in WordKeys
          => values[io.key] = Clamped(fields[io.key], io.value)
    /\ io.op = "set_data"
          => \A k \in WordKeys : \A v \in Given(io.kwargs, k) :
                fields[k].settable => values[k] = Clamped(fields[k], v)
    /\ io.op = "new"
          => \A k \in WordKeys :
                /\ \A v \in Given(io.initial_values, k) :
                      values[k] = Clamped(fields[k], v)
                /\ Given(io.initial_values, k) = {}
                      => values[k] = Clamped(fields[k], fields[k].default)

\* 100000 assigned to an unsigned 16-bit field is stored as 65535
C11_Witness ==
    /\ io.op = "assign"
    /\ io.key \in WordKeys
    /\ ~fields[io.key].signed
    /\ io.value = 100000
    /\ values[io.key] = 65535

\* What a field of the record type keeps of the value v it is given
Coerced(f, v) ==
    IF f.kind = "bool" THEN (IF v = 0 THEN 0 ELSE 1) ELSE Clamped(f, v)

\* Keys of the keyword list kw that name a settable field
SettableKeys(kw) ==
    {k \in DOMAIN fields : fields[k].settable /\ Given(kw, k) # {}}

\* Some settable field named by kw is given a value that, coerced, differs
\* from the one it held
SetChanges(kw, pre) ==
    \E k \in SettableKeys(kw) : \E v \in Given(kw, k) :
        Coerced(fields[k], v) # pre[k]

\* C13: set_data leaves every field it does not name, every field that is
\* not settable and every unknown key without effect, stores the coerced
\* value in each settable field it names, and puts one notification in every
\* subscriber queue when some settable field's coerced new value differs from
\* the value held, none otherwise.
C13_SetData ==
    io.op = "set_data" =>
        /\ \A k \in DOMAIN fields :
              IF k \in SettableKeys(io.kwargs)
              THEN \A v \in Given(io.kwargs, k) :
                      values[k] = Coerced(fields[k], v)
              ELSE values[k] = io.pre[k]
        /\ \A q \in DOMAIN io.delivered :
              io.delivered[q] =
                  IF q \in Range(io.subs) /\ SetChanges(io.kwargs, io.pre)
                  THEN 1 ELSE 0

\* A set_data naming a field that is not settable and a settable one whose
\* value changes: one notification for the subscriber, the first field kept
C13_Witness ==
    /\ io.op = "set_data"
    /\ Given(io.kwargs, 2) # {}
    /\ \A v \in Given(io.kwargs, 2) : Coerced(fields[2], v) # io.pre[2]
    /\ values[2] = io.pre[2]
    /\ values[1] # io.pre[1]
    /\ \E q \in Range(io.subs) : io.delivered[q] = 1

\* A set_data whose only settable value is, once coerced, the value held:
\* no notification
C13_WitnessUnchanged ==
    /\ io.op = "set_data"
    /\ io.subs # <<>>
    /\ SettableKeys(io.kwargs) # {}
    /\ \E k \in SettableKeys(io.kwargs) : \E v \in Given(io.kwargs, k) :
          v # io.pre[k]
    /\ ~SetChanges(io.kwargs, io.pre)

-----------------------------------------------------------------------------
(* Properties of notification, checked under SpecFan *)

\* C12: one from_bytes call puts exactly one notification in the queue of
\* every registered subscriber whose queue is not full, and none anywhere
\* else, whether the decode changed every field, one field or none.
C12_OneNotificationPerDecode ==
    io.op = "from_bytes" =>
        \A q \in DOMAIN io.delivered :
            io.delivered[q] =
                IF q \in Range(io.subs) /\ q \notin io.full THEN 1 ELSE 0

\* A decode that changed both fields, with two subscribers registered
C12_Witness ==
    /\ io.op = "from_bytes"
    /\ io.changed = Len(fields)
    /\ Len(io.subs) = MaxSubs
    /\ io.full = {}
    /\ \A q \in Range(io.subs) : io.delivered[q] = 1

\* A decode that changed no field, with a subscriber registered
C12_WitnessNoChange ==
    /\ io.op = "from_bytes"
    /\ io.changed = 0
    /\ io.subs # <<>>
    /\ \A q \in Range(io.subs) : io.delivered[q] = 1

\* C14: no subscriber queue ever holds more than QueueMaxSize items; a
\* notification that finds a queue full leaves that queue as it was, and is
\* still put in the queue of every other registered subscriber that has room.
C14_BoundedFanOut ==
    /\ \A q \in DOMAIN queues : queues[q] <= QueueMaxSize
    /\ io.op \in {"from_bytes", "set_data", "sync"} =>
          \A q \in io.full : io.delivered[q] = 0
    /\ io.op = "from_bytes" \/ (io.op = "set_data" /\ io.changed > 0) =>
          \A q \in Range(io.subs) \ io.full : io.delivered[q] = 1

\* A decode that found the first subscriber's queue full and the second
\* subscriber's queue with room
C14_Witness ==
    /\ io.op = "from_bytes"
    /\ Len(io.subs) = 2
    /\ io.full = {io.subs[1]}
    /\ queues[io.subs[1]] = QueueMaxSize
    /\ io.delivered[io.subs[1]] = 0
    /\ io.delivered[io.subs[2]] = 1

-----------------------------------------------------------------------------
(* Properties of encoding, checked under SpecEncode *)

\* The largest byte_offset + size of the schema, 0 when it has no field
LayoutSize(fs) ==
    IF fs = <<>> THEN 0
    ELSE LET ends == {fs[i].byte_offset + fs[i].size : i \in DOMAIN fs}
         IN  CHOOSE m \in ends : \A e \in ends : e <= m

\* The <<byte, bit>> pairs of a buffer of n bytes that no field owns
Unowned(fs, n) ==
    ((0..(n - 1)) \X (0..7)) \ UNION {OwnedBits(fs[i]) : i \in DOMAIN fs}

\* C18: to_bytes returns max(byte_offset + size) bytes, none for the empty
\* schema, with every bit that no field owns at zero whatever was decoded
\* before; for the record of the example with all values zero and status
\* true the bytes are 00 00 00 00 00 00 01.
C18_EncodeLayout ==
    io.op = "to_bytes" =>
        /\ Len(io.out) = LayoutSize(fields)
        /\ \A p \in Unowned(fields, Len(io.out)) :
              BitOf(io.out[p[1] + 1], p[2]) = 0
        /\ (fields = MyPLCData /\ values = <<0, 0, 1>>)
              => io.out = <<0, 0, 0, 0, 0, 0, 1>>

\* The example: all values zero, status true, seven bytes encoded
C18_Witness ==
    /\ io.op = "to_bytes"
    /\ fields = MyPLCData
    /\ values = <<0, 0, 1>>
    /\ Len(io.out) = 7
    /\ io.out[7] = 1

\* An encode after a decode of a block with every bit set, in a layout with
\* bits that no field owns
C18_WitnessAfterDecode ==
    /\ io.op = "to_bytes"
    /\ io.decoded
    /\ Unowned(fields, Len(io.out)) # {}
    /\ \E i \in DOMAIN fields : values[i] # 0

\* An encode of the empty schema
C18_WitnessEmpty ==
    /\ io.op = "to_bytes"
    /\ fields = <<>>
    /\ io.out = <<>>

-----------------------------------------------------------------------------
(* Properties of the whole record, checked under SpecValues *)

\* The values a field can represent
Representable(f) ==
    IF f.kind = "bool" THEN {0, 1}
    ELSE IF f.signed THEN -32768..32767
    ELSE 0..65535

\* C19: after construction and after any sequence of decodes of buffers of
\* any length, set_data calls, assignments, connect(), read() and write(),
\* every field of the schema has a value, and the value is 0 or 1 for a bit,
\* within [0, 65535] for an unsigned and within [-32768, 32767] for a signed
\* 16-bit field.
C19_ValuesRepresentable ==
    /\ DOMAIN values = DOMAIN fields
    /\ \A k \in DOMAIN fields : values[k] \in Representable(fields[k])

\* A read() has decoded a block into a signed 16-bit field that held the
\* clamped value of an assignment
C19_Witness ==
    /\ call.op = "read"
    /\ call.ret = "True"
    /\ fields[1].signed
    /\ call.vals[1] = -32768
    /\ values[1] = -255
    /\ values[2] = 1

=============================================================================
